---- MODULE Spec2Model ----
(***************************************************************************)
(* Model of the Multithreaded-Downloader repository.                       *)
(*                                                                         *)
(*  Spec        the Redis job queue (queue.go), the worker loop, its       *)
(*              progress tracker and the stale-job sweeper (worker.go),    *)
(*              one step per Redis / database command.                     *)
(*  SpecReserve the same system with the sweepers and trackers switched    *)
(*              off: enqueue, reserve, complete, fail and crashes only.    *)
(*  FairSpec    Spec with the fairness the Go scheduler gives to the       *)
(*              goroutines of a live process.                              *)
(*  SpecDL      one Download Engine run (downloader/downloader.go and      *)
(*              downloader/state.go), with interruption and restart.       *)
(***************************************************************************)
EXTENDS Integers, Sequences, FiniteSets, TLC

(***************************************************************************)
(* Bounds of the model.                                                    *)
(***************************************************************************)
NumJobs == 2
SweepJobs == 1
NumWorkers == 2
MaxTicks == 2
MaxBacklog == 1

Jobs == 1..NumJobs
Workers == 1..NumWorkers

(***************************************************************************)
(* Time.  One unit is 30 minutes, so JobProcessingTimeout (30 * time.Minute)*)
(* is 1.  ZeroTime is Go's time.Time{} (year 1); the wall clock starts at  *)
(* Epoch, far more than the timeout after it.                              *)
(***************************************************************************)
JobProcessingTimeout == 1
ZeroTime == 0
Epoch == 3
MaxTime == Epoch + MaxTicks

NoWorker == 0
NoJobId == 0

(* A DownloadJob as serialized in a Redis list, reduced to the fields the  *)
(* queue reads: ID, StartedAt, WorkerID.                                   *)
DownloadJob(id, startedAt, workerID) ==
  [id |-> id, startedAt |-> startedAt, workerID |-> workerID]

NoJob == DownloadJob(NoJobId, ZeroTime, NoWorker)

(* A JobStatus value stored under job_status:{id}.                         *)
JobStatus(state, progress, workerID, err) ==
  [state |-> state, progress |-> progress, workerID |-> workerID, error |-> err]

NoStatus == JobStatus("none", 0, NoWorker, "")

VARIABLES
  pending,      \* Redis list download_jobs   (index 1 is the head)
  processing,   \* Redis list processing_jobs
  completed,    \* Redis list completed_jobs
  failed,       \* Redis list failed_jobs
  status,       \* Redis keys job_status:{id}
  db,           \* ids that have a row in the downloads table
  enq,          \* number of jobs the admission layer has started to enqueue
  epc,          \* admission handler: "idle" | "status"
  now,          \* wall clock
  alive,        \* worker process is running
  pc,           \* worker loop position
  job,          \* worker's local *DownloadJob
  errMsg,       \* worker's local errorMsg
  rd,           \* status value read by the worker's final UpdateJobProgress
  tpc,          \* progress tracker goroutine: "off" | "tick" | "set"
  trd,          \* status value read by the tracker's UpdateJobProgress
  spc,          \* cleanup routine: "wait" | "loop" | "push" | "status"
  sjobs,        \* cleanup routine: rest of the LRange snapshot
  scur,         \* cleanup routine: the job being requeued
  requeued      \* ids CleanupStaleJobs has pushed back (its staleCount log)

qvars == <<pending, processing, completed, failed, status, db, enq, epc, now,
           alive, pc, job, errMsg, rd, tpc, trd, spc, sjobs, scur, requeued>>

VARIABLES
  origin,       \* how the origin server answers: "range" | "whole" | "any"
  total,        \* length of the remote file
  reqThreads,   \* Downloader.NumThreads as requested
  progressFile, \* content of download_state.json: NoFile, Corrupt or a Progress
  outSize,      \* size of the output file, NoFile when it does not exist
  prog,         \* Downloader.Progress (NoProg while nil)
  dpc,          \* engine position: load, start, wait, save, verify, done
  fpc,          \* downloadPart goroutine of each part: idle, top, read, exit
  body,         \* bytes left in the response stream a fetcher is reading
  wpos,         \* file offset of a fetcher's open output file
  snpc,         \* snapshot goroutine: off, tick, write
  sdata,        \* bytes the snapshot goroutine marshalled and is writing
  fdata,        \* bytes the engine marshalled and is writing
  resumed,      \* this run loaded its Progress from the file
  restarts,     \* interruptions so far
  result        \* what the run returned: "", SUCCESS, INCOMPLETE, PROBE_FAILED

dvars == <<origin, total, reqThreads, progressFile, outSize, prog, dpc, fpc, body,
           wpos, snpc, sdata, fdata, resumed, restarts, result>>

VARIABLES
  stop,         \* Worker.Stop of the worker that runs the engine:
                \* "running" | "stopping" (ctx cancelled, in wg.Wait) | "stopped"
  mstatus,      \* ManagedDownload.Status of the non-queue server
  head,         \* how the origin answers the HEAD of SupportsRange
  leftover,     \* content of download_state.json before the transfer began
  reqT,         \* threads field of the request enqueueDownloadHandler handled last
  jobThreads,   \* DownloadJob.Threads of each enqueued job (0: none)
  run2          \* the goroutine of resumeDownloadHandler: st is "off" | "start"
                \* (spawned) | "wait" (in Download, fetchers started) | "done",
                \* live the parts whose downloadPart of that run has not returned

svars == <<stop, mstatus, head, leftover, reqT, jobThreads, run2>>

vars == <<qvars, dvars, svars>>

NoRun == [st |-> "off", live |-> {}]

(***************************************************************************)
(* Redis list commands.                                                    *)
(***************************************************************************)
LPush(list, e) == <<e>> \o list

RECURSIVE LRem1(_, _)
LRem1(list, e) ==
  IF list = <<>> THEN <<>>
  ELSE IF Head(list) = e THEN Tail(list)
  ELSE <<Head(list)>> \o LRem1(Tail(list), e)

(* BRPOPLPUSH src dst on a non-empty src: one command.                     *)
BRPopLPush_NoPush(src, dst) ==
  [item |-> src[Len(src)], src |-> SubSeq(src, 1, Len(src) - 1), dst |-> dst]

(* A reserve that takes the head of src, the entry pushed last.            *)
BRPopLPush_PopsHead(src, dst) ==
  [item |-> Head(src), src |-> Tail(src), dst |-> LPush(dst, Head(src))]

BRPopLPush(src, dst) ==
  [item |-> src[Len(src)],
   src  |-> SubSeq(src, 1, Len(src) - 1),
   dst  |-> LPush(dst, src[Len(src)])]

InList(list, id) == \E i \in 1..Len(list) : list[i].id = id

Count(list, id) == Cardinality({i \in 1..Len(list) : list[i].id = id})

(* removeFromProcessingQueue: LRANGE, then LREM 1 of the first entry whose *)
(* ID matches.  Entries of one job are byte-identical, so the two commands *)
(* act as one LREM of that entry.                                          *)
RemoveFromProcessingQueue(list, id) ==
  IF InList(list, id)
    THEN LRem1(list, list[CHOOSE i \in 1..Len(list) :
                           /\ list[i].id = id
                           /\ \A k \in 1..(i - 1) : list[k].id # id])
    ELSE list

(* time.Since(job.StartedAt) > JobProcessingTimeout                        *)
Stale_Inverted(e, t) == t - e.startedAt < JobProcessingTimeout

Stale(e, t) == t - e.startedAt > JobProcessingTimeout

(* GetQueueStats: LLEN of the four lists and their sum.                    *)
GetQueueStats ==
  [queued     |-> Len(pending),
   processing |-> Len(processing),
   completed  |-> Len(completed),
   failed     |-> Len(failed),
   total      |-> Len(pending) + Len(processing) + Len(completed) + Len(failed)]

(***************************************************************************)
(* Initial state: empty store, every worker process started.               *)
(***************************************************************************)
QInit ==
  /\ pending = <<>> /\ processing = <<>> /\ completed = <<>> /\ failed = <<>>
  /\ status = [j \in Jobs |-> NoStatus]
  /\ db = {}
  /\ enq = 0
  /\ epc = "idle"
  /\ now = Epoch
  /\ alive = [w \in Workers |-> TRUE]
  /\ stop = "running"
  /\ mstatus = "downloading"
  /\ reqT = 0
  /\ jobThreads = [j \in Jobs |-> 0]
  /\ run2 = NoRun
  /\ pc = [w \in Workers |-> "idle"]
  /\ job = [w \in Workers |-> NoJob]
  /\ errMsg = [w \in Workers |-> ""]
  /\ rd = [w \in Workers |-> NoStatus]
  /\ tpc = [w \in Workers |-> "off"]
  /\ trd = [w \in Workers |-> NoStatus]
  /\ spc = [w \in Workers |-> "wait"]
  /\ sjobs = [w \in Workers |-> <<>>]
  /\ scur = [w \in Workers |-> NoJob]
  /\ requeued = {}

(* No Download Engine run is modelled beside the queue: its state is idle. *)
NoFile == -1
NoProg == [url |-> "", filename |-> "", total |-> 0, parts |-> <<>>]
Corrupt == [url |-> "", filename |-> "", total |-> -1, parts |-> <<>>]

DIdle ==
  /\ origin = "range" /\ total = 0 /\ reqThreads = 0
  /\ progressFile = NoProg /\ outSize = NoFile /\ prog = NoProg
  /\ dpc = "off" /\ fpc = <<>> /\ body = <<>> /\ wpos = <<>>
  /\ snpc = "off" /\ sdata = NoProg /\ fdata = NoProg
  /\ resumed = FALSE /\ restarts = 0 /\ result = ""
  /\ head = "ok" /\ leftover = NoProg

Init == QInit /\ DIdle

(***************************************************************************)
(* Admission: EnqueueJob = LPUSH download_jobs, then SET job_status.       *)
(***************************************************************************)
EnqueueJob_LPush(n) ==
  /\ epc = "idle"
  /\ enq < n
  /\ enq' = enq + 1
  /\ pending' = LPush(pending, DownloadJob(enq + 1, ZeroTime, NoWorker))
  /\ epc' = "status"
  /\ UNCHANGED <<processing, completed, failed, status, db, now, alive, pc, job,
                 errMsg, rd, tpc, trd, spc, sjobs, scur, requeued>>
  /\ UNCHANGED <<dvars, svars>>

EnqueueJob_SetStatus ==
  /\ epc = "status"
  /\ status' = [status EXCEPT ![enq] = JobStatus("queued", 0, NoWorker, "")]
  /\ epc' = "idle"
  /\ UNCHANGED <<pending, processing, completed, failed, db, enq, now, alive, pc,
                 job, errMsg, rd, tpc, trd, spc, sjobs, scur, requeued>>
  /\ UNCHANGED <<dvars, svars>>

(***************************************************************************)
(* Worker loop: processJobs -> DequeueJob -> processDownloadJob.           *)
(***************************************************************************)
DequeueJob_BRPopLPush(w) ==
  /\ alive[w] /\ pc[w] = "idle"
  /\ pending # <<>>
  /\ LET r == BRPopLPush(pending, processing) IN
       /\ pending' = r.src
       /\ processing' = r.dst
       /\ job' = [job EXCEPT ![w] = DownloadJob(r.item.id, now, w)]
  /\ pc' = [pc EXCEPT ![w] = "deq_status"]
  /\ UNCHANGED <<completed, failed, status, db, enq, epc, now, alive, errMsg, rd,
                 tpc, trd, spc, sjobs, scur, requeued>>
  /\ UNCHANGED <<dvars, svars>>

DequeueJob_SetStatus(w) ==
  /\ alive[w] /\ pc[w] = "deq_status"
  /\ status' = [status EXCEPT ![job[w].id] = JobStatus("processing", 0, w, "")]
  /\ pc' = [pc EXCEPT ![w] = "create_db"]
  /\ UNCHANGED <<pending, processing, completed, failed, db, enq, epc, now, alive,
                 job, errMsg, rd, tpc, trd, spc, sjobs, scur, requeued>>
  /\ UNCHANGED <<dvars, svars>>

(* dbManager.CreateDownload: INSERT into downloads, id is the primary key. *)
(* On success the tracker goroutine is started (go w.trackProgress).       *)
CreateDownload(w) ==
  /\ alive[w] /\ pc[w] = "create_db"
  /\ IF job[w].id \in db
       THEN /\ errMsg' = [errMsg EXCEPT ![w] = "db"]
            /\ pc' = [pc EXCEPT ![w] = "fail_rem"]
            /\ UNCHANGED <<db, tpc>>
       ELSE /\ db' = db \cup {job[w].id}
            /\ pc' = [pc EXCEPT ![w] = "engine"]
            /\ tpc' = [tpc EXCEPT ![w] = "tick"]
            /\ UNCHANGED errMsg
  /\ UNCHANGED <<pending, processing, completed, failed, status, enq, epc, now,
                 alive, job, rd, trd, spc, sjobs, scur, requeued>>
  /\ UNCHANGED <<dvars, svars>>

(* LoadOrCreateProgress, Download and VerifyDownload, by their result:     *)
(* nil from all three, or an error from one of them.                       *)
EngineResults == {"ok", "err"}

(* A processDownloadJob that returns on an engine error without FailJob.   *)
RunEngine_ErrReturns(w) ==
  /\ alive[w] /\ pc[w] = "engine"
  /\ \E r \in {"ok", "err"} :
       IF r = "ok"
         THEN /\ pc' = [pc EXCEPT ![w] = "complete_rem"]
              /\ UNCHANGED errMsg
         ELSE /\ pc' = [pc EXCEPT ![w] = "ret"]
              /\ errMsg' = [errMsg EXCEPT ![w] = "engine"]
  /\ UNCHANGED <<pending, processing, completed, failed, status, db, enq, epc, now,
                 alive, job, rd, tpc, trd, spc, sjobs, scur, requeued>>
  /\ UNCHANGED <<dvars, svars>>

RunEngine(w) ==
  /\ alive[w] /\ pc[w] = "engine"
  /\ \E r \in EngineResults :
       IF r = "ok"
         THEN /\ pc' = [pc EXCEPT ![w] = "complete_rem"]
              /\ UNCHANGED errMsg
         ELSE /\ pc' = [pc EXCEPT ![w] = "fail_rem"]
              /\ errMsg' = [errMsg EXCEPT ![w] = "engine"]
  /\ UNCHANGED <<pending, processing, completed, failed, status, db, enq, epc, now,
                 alive, job, rd, tpc, trd, spc, sjobs, scur, requeued>>
  /\ UNCHANGED <<dvars, svars>>

CompleteJob_Remove(w) ==
  /\ alive[w] /\ pc[w] = "complete_rem"
  /\ processing' = RemoveFromProcessingQueue(processing, job[w].id)
  /\ pc' = [pc EXCEPT ![w] = "complete_set"]
  /\ UNCHANGED <<pending, completed, failed, status, db, enq, epc, now, alive, job,
                 errMsg, rd, tpc, trd, spc, sjobs, scur, requeued>>
  /\ UNCHANGED <<dvars, svars>>

CompleteJob_SetStatus(w) ==
  /\ alive[w] /\ pc[w] = "complete_set"
  /\ status' = [status EXCEPT ![job[w].id] = JobStatus("completed", 100, w, "")]
  /\ pc' = [pc EXCEPT ![w] = "final_get"]
  /\ UNCHANGED <<pending, processing, completed, failed, db, enq, epc, now, alive,
                 job, errMsg, rd, tpc, trd, spc, sjobs, scur, requeued>>
  /\ UNCHANGED <<dvars, svars>>

(* UpdateJobProgress: GET job_status, change the progress fields, SET.     *)
(* A missing status is recreated as "processing".                          *)
ReadStatus(id) ==
  IF status[id] = NoStatus THEN JobStatus("processing", 0, NoWorker, "")
  ELSE status[id]

FinalProgress_Get(w) ==
  /\ alive[w] /\ pc[w] = "final_get"
  /\ rd' = [rd EXCEPT ![w] = ReadStatus(job[w].id)]
  /\ pc' = [pc EXCEPT ![w] = "final_set"]
  /\ UNCHANGED <<pending, processing, completed, failed, status, db, enq, epc, now,
                 alive, job, errMsg, tpc, trd, spc, sjobs, scur, requeued>>
  /\ UNCHANGED <<dvars, svars>>

FinalProgress_Set(w) ==
  /\ alive[w] /\ pc[w] = "final_set"
  /\ status' = [status EXCEPT ![job[w].id] = [rd[w] EXCEPT !.progress = 100]]
  /\ rd' = [rd EXCEPT ![w] = NoStatus]
  /\ pc' = [pc EXCEPT ![w] = "ret"]
  /\ UNCHANGED <<pending, processing, completed, failed, db, enq, epc, now, alive,
                 job, errMsg, tpc, trd, spc, sjobs, scur, requeued>>
  /\ UNCHANGED <<dvars, svars>>

FailJob_Remove(w) ==
  /\ alive[w] /\ pc[w] = "fail_rem"
  /\ processing' = RemoveFromProcessingQueue(processing, job[w].id)
  /\ pc' = [pc EXCEPT ![w] = "fail_set"]
  /\ UNCHANGED <<pending, completed, failed, status, db, enq, epc, now, alive, job,
                 errMsg, rd, tpc, trd, spc, sjobs, scur, requeued>>
  /\ UNCHANGED <<dvars, svars>>

FailJob_SetStatus(w) ==
  /\ alive[w] /\ pc[w] = "fail_set"
  /\ status' = [status EXCEPT ![job[w].id] = JobStatus("failed", 0, w, errMsg[w])]
  /\ pc' = [pc EXCEPT ![w] = "ret"]
  /\ UNCHANGED <<pending, processing, completed, failed, db, enq, epc, now, alive,
                 job, errMsg, rd, tpc, trd, spc, sjobs, scur, requeued>>
  /\ UNCHANGED <<dvars, svars>>

(* processDownloadJob returns: the deferred progressCancel stops the       *)
(* tracker, and the loop goes back to DequeueJob.                          *)
ProcessReturn(w) ==
  /\ alive[w] /\ pc[w] = "ret"
  /\ pc' = [pc EXCEPT ![w] = "idle"]
  /\ job' = [job EXCEPT ![w] = NoJob]
  /\ errMsg' = [errMsg EXCEPT ![w] = ""]
  /\ tpc' = [tpc EXCEPT ![w] = "off"]
  /\ trd' = [trd EXCEPT ![w] = NoStatus]
  /\ UNCHANGED <<pending, processing, completed, failed, status, db, enq, epc, now,
                 alive, rd, spc, sjobs, scur, requeued>>
  /\ UNCHANGED <<dvars, svars>>

(***************************************************************************)
(* trackProgress: every 3 s, UpdateJobProgress with the engine's counters. *)
(***************************************************************************)
Percents == {50}

TrackProgress_Get(w) ==
  /\ alive[w] /\ tpc[w] = "tick"
  /\ trd' = [trd EXCEPT ![w] = ReadStatus(job[w].id)]
  /\ tpc' = [tpc EXCEPT ![w] = "set"]
  /\ UNCHANGED <<pending, processing, completed, failed, status, db, enq, epc, now,
                 alive, pc, job, errMsg, rd, spc, sjobs, scur, requeued>>
  /\ UNCHANGED <<dvars, svars>>

TrackProgress_Set(w) ==
  /\ alive[w] /\ tpc[w] = "set"
  /\ \E p \in Percents :
       status' = [status EXCEPT ![job[w].id] = [trd[w] EXCEPT !.progress = p]]
  /\ trd' = [trd EXCEPT ![w] = NoStatus]
  /\ tpc' = [tpc EXCEPT ![w] = "tick"]
  /\ UNCHANGED <<pending, processing, completed, failed, db, enq, epc, now, alive,
                 pc, job, errMsg, rd, spc, sjobs, scur, requeued>>
  /\ UNCHANGED <<dvars, svars>>

(***************************************************************************)
(* cleanupRoutine -> CleanupStaleJobs: LRANGE, then per stale entry        *)
(* LREM, LPUSH download_jobs, SET job_status.  A run starts only while the *)
(* two work lists hold at most MaxBacklog entries, which keeps the lists   *)
(* finite when concurrent runs duplicate entries.                          *)
(***************************************************************************)
Cleanup_LRange(w) ==
  /\ alive[w] /\ spc[w] = "wait"
  /\ processing # <<>>
  /\ Len(pending) + Len(processing) <= MaxBacklog
  /\ sjobs' = [sjobs EXCEPT ![w] = processing]
  /\ spc' = [spc EXCEPT ![w] = "loop"]
  /\ UNCHANGED <<pending, processing, completed, failed, status, db, enq, epc, now,
                 alive, pc, job, errMsg, rd, tpc, trd, scur, requeued>>
  /\ UNCHANGED <<dvars, svars>>

Cleanup_Next(w) ==
  /\ alive[w] /\ spc[w] = "loop"
  /\ IF sjobs[w] = <<>>
       THEN /\ spc' = [spc EXCEPT ![w] = "wait"]
            /\ UNCHANGED <<processing, sjobs, scur>>
       ELSE /\ sjobs' = [sjobs EXCEPT ![w] = Tail(sjobs[w])]
            /\ IF Stale(Head(sjobs[w]), now)
                 THEN /\ processing' = LRem1(processing, Head(sjobs[w]))
                      /\ scur' = [scur EXCEPT ![w] =
                                    DownloadJob(Head(sjobs[w]).id, ZeroTime, NoWorker)]
                      /\ spc' = [spc EXCEPT ![w] = "push"]
                 ELSE UNCHANGED <<processing, scur, spc>>
  /\ UNCHANGED <<pending, completed, failed, status, db, enq, epc, now, alive, pc,
                 job, errMsg, rd, tpc, trd, requeued>>
  /\ UNCHANGED <<dvars, svars>>

Cleanup_LPush(w) ==
  /\ alive[w] /\ spc[w] = "push"
  /\ pending' = LPush(pending, scur[w])
  /\ requeued' = requeued \cup {scur[w].id}
  /\ spc' = [spc EXCEPT ![w] = "status"]
  /\ UNCHANGED <<processing, completed, failed, status, db, enq, epc, now, alive,
                 pc, job, errMsg, rd, tpc, trd, sjobs, scur>>
  /\ UNCHANGED <<dvars, svars>>

Cleanup_SetStatus(w) ==
  /\ alive[w] /\ spc[w] = "status"
  /\ status' = [status EXCEPT ![scur[w].id] = JobStatus("queued", 0, NoWorker, "")]
  /\ scur' = [scur EXCEPT ![w] = NoJob]
  /\ spc' = [spc EXCEPT ![w] = "loop"]
  /\ UNCHANGED <<pending, processing, completed, failed, db, enq, epc, now, alive,
                 pc, job, errMsg, rd, tpc, trd, sjobs, requeued>>
  /\ UNCHANGED <<dvars, svars>>

(***************************************************************************)
(* Environment: the clock, and the crash of a worker process (all of its   *)
(* goroutines stop; what it wrote to Redis and the database stays).        *)
(***************************************************************************)
Tick ==
  /\ now < MaxTime
  /\ now' = now + 1
  /\ UNCHANGED <<pending, processing, completed, failed, status, db, enq, epc,
                 alive, pc, job, errMsg, rd, tpc, trd, spc, sjobs, scur, requeued>>
  /\ UNCHANGED <<dvars, svars>>

Crash(w) ==
  /\ alive[w]
  /\ \E v \in Workers \ {w} : alive[v]
  /\ alive' = [alive EXCEPT ![w] = FALSE]
  /\ pc' = [pc EXCEPT ![w] = "crashed"]
  /\ job' = [job EXCEPT ![w] = NoJob]
  /\ errMsg' = [errMsg EXCEPT ![w] = ""]
  /\ rd' = [rd EXCEPT ![w] = NoStatus]
  /\ tpc' = [tpc EXCEPT ![w] = "off"]
  /\ trd' = [trd EXCEPT ![w] = NoStatus]
  /\ spc' = [spc EXCEPT ![w] = "crashed"]
  /\ sjobs' = [sjobs EXCEPT ![w] = <<>>]
  /\ scur' = [scur EXCEPT ![w] = NoJob]
  /\ UNCHANGED <<pending, processing, completed, failed, status, db, enq, epc, now,
                 requeued>>
  /\ UNCHANGED <<dvars, svars>>

WorkerStep(w) ==
  \/ DequeueJob_BRPopLPush(w)
  \/ DequeueJob_SetStatus(w)
  \/ CreateDownload(w)
  \/ RunEngine(w)
  \/ CompleteJob_Remove(w)
  \/ CompleteJob_SetStatus(w)
  \/ FinalProgress_Get(w)
  \/ FinalProgress_Set(w)
  \/ FailJob_Remove(w)
  \/ FailJob_SetStatus(w)
  \/ ProcessReturn(w)

TrackerStep(w) == TrackProgress_Get(w) \/ TrackProgress_Set(w)

CleanupStep(w) ==
  \/ Cleanup_LRange(w)
  \/ Cleanup_Next(w)
  \/ Cleanup_LPush(w)
  \/ Cleanup_SetStatus(w)

(***************************************************************************)
(* Spec: admission of SweepJobs jobs, the worker loops, the cleanup        *)
(* routines and process crashes.                                           *)
(***************************************************************************)
Next ==
  \/ EnqueueJob_LPush(SweepJobs)
  \/ EnqueueJob_SetStatus
  \/ \E w \in Workers : WorkerStep(w)
  \/ \E w \in Workers : CleanupStep(w)
  \/ \E w \in Workers : Crash(w)

Spec == Init /\ [][Next]_vars

(***************************************************************************)
(* SpecReserve: admission of NumJobs jobs, the worker loops and crashes;   *)
(* no cleanup routine runs.                                                *)
(***************************************************************************)
NextReserve ==
  \/ EnqueueJob_LPush(NumJobs)
  \/ EnqueueJob_SetStatus
  \/ \E w \in Workers : WorkerStep(w)
  \/ \E w \in Workers : Crash(w)

SpecReserve == Init /\ [][NextReserve]_vars

(***************************************************************************)
(* SpecTrack: Spec's admission, workers and cleanup routines, with every   *)
(* worker's progress tracker running.                                      *)
(***************************************************************************)
NextTrack ==
  \/ EnqueueJob_LPush(SweepJobs)
  \/ EnqueueJob_SetStatus
  \/ \E w \in Workers : WorkerStep(w)
  \/ \E w \in Workers : TrackerStep(w)
  \/ \E w \in Workers : CleanupStep(w)

SpecTrack == Init /\ [][NextTrack]_vars

(***************************************************************************)
(* SpecClock: Spec's admission, workers and cleanup routines, with the     *)
(* wall clock advancing.                                                   *)
(***************************************************************************)
NextClock ==
  \/ EnqueueJob_LPush(SweepJobs)
  \/ EnqueueJob_SetStatus
  \/ \E w \in Workers : WorkerStep(w)
  \/ \E w \in Workers : CleanupStep(w)
  \/ Tick

SpecClock == Init /\ [][NextClock]_vars

(***************************************************************************)
(* FairSpec: Spec, where the goroutines of a live process keep being       *)
(* scheduled (worker loop, cleanup routine) and the admission handler      *)
(* finishes.  A crash is never forced, and Crash leaves one process alive. *)
(***************************************************************************)
FairSpec ==
  /\ Init /\ [][Next]_vars
  /\ WF_vars(EnqueueJob_LPush(SweepJobs) \/ EnqueueJob_SetStatus)
  /\ \A w \in Workers : WF_vars(WorkerStep(w))
  /\ \A w \in Workers : WF_vars(CleanupStep(w))

(***************************************************************************)
(* The Download Engine: one transfer of a remote file of `total` bytes     *)
(* into the output file, by LoadOrCreateProgress, Download and             *)
(* VerifyDownload, as processDownloadJob calls them.  The process may be   *)
(* interrupted (killed) at any step and the transfer started again; the    *)
(* output file and download_state.json survive, the memory does not.       *)
(*                                                                         *)
(* Origin answers to a ranged GET for bytes a..b:                          *)
(*   "range"  206 with the b-a+1 bytes asked for                           *)
(*   "whole"  200 with the whole file (Range ignored, Accept-Ranges none)  *)
(*   "any"    a failure, or 200/206 with a body of any length that ends    *)
(*            in EOF or in a read error                                    *)
(***************************************************************************)
MaxSize == 3
MaxThreads == 2
MaxRead == 2
MaxRestarts == 1
ResumeSize == 2

OriginModes == {"range", "whole", "any"}

Part(start, end, downloaded, done) ==
  [start |-> start, end |-> end, downloaded |-> downloaded, done |-> done]

Min(a, b) == IF a < b THEN a ELSE b
Max(a, b) == IF a > b THEN a ELSE b

(* NewDownloader: the Downloader of a job.  ProgressFile is the literal     *)
(* "download_state.json", a path relative to the working directory of the  *)
(* process, whatever the url and the output path.                          *)
NewDownloader(url, filename, numThreads) ==
  [url |-> url, filename |-> filename, numThreads |-> numThreads,
   progressFile |-> "download_state.json"]

(* A CreateNewProgress whose last part is as long as the others.           *)
CreateNewProgress_NoRemainder(url, filename, totalSize, numThreads) ==
  [url |-> url, filename |-> filename, total |-> totalSize,
   parts |-> [i \in 1..numThreads |->
                Part((i - 1) * (totalSize \div numThreads),
                     (i - 1) * (totalSize \div numThreads)
                       + (totalSize \div numThreads) - 1,
                     0, FALSE)]]

(* CreateNewProgress: numThreads parts of totalSize / numThreads bytes,    *)
(* the last one ending at totalSize - 1.  Part i of the model is Index i-1.*)
CreateNewProgress(url, filename, totalSize, numThreads) ==
  [url |-> url, filename |-> filename, total |-> totalSize,
   parts |-> [i \in 1..numThreads |->
                Part((i - 1) * (totalSize \div numThreads),
                     IF i = numThreads
                       THEN totalSize - 1
                       ELSE (i - 1) * (totalSize \div numThreads)
                              + (totalSize \div numThreads) - 1,
                     0, FALSE)]]

(* SupportsRange.  The HEAD is answered 200 ("ok"), answered with another  *)
(* status such as 405 ("status"), or fails in the transport ("error").     *)
(*   "ok"      Content-Length, and Accept-Ranges == "bytes"                *)
(*   "status"  an error: the fallback is not tried                         *)
(*   "error"   GET with Range: bytes=0-1023; a 206 means ranges and the    *)
(*             total of Content-Range, a 200 means no ranges and the       *)
(*             Content-Length                                              *)
(* In every case a length <= 0 is an error.                                *)
HeadOutcomes == {"ok", "status", "error"}

SupportsRange_AlwaysRanges(o, h, len) ==
  [ok |-> h # "status" /\ len > 0, ranges |-> TRUE, length |-> len]

SupportsRange(o, h, len) ==
  IF h = "status"
    THEN [ok |-> FALSE, ranges |-> FALSE, length |-> 0]
    ELSE [ok |-> len > 0, ranges |-> o # "whole", length |-> len]

(* Progress.IsComplete *)
IsComplete(p) == \A i \in 1..Len(p.parts) : p.parts[i].done

PartSize(pt) == pt.end - pt.start + 1

(* LoadProgress succeeds: the file exists and parses.                      *)
Loadable(f) == f # NoProg /\ f # Corrupt

(* The transfer the engine is asked for, and another one.                  *)
ReqURL == "u"
ReqFile == "f"
OtherURL == "v"
OtherFile == "g"

(* existingProgress.URL == d.URL && existingProgress.Filename == d.Filename *)
Matches_UrlOnly(f) == f.url = ReqURL

Matches(f) == f.url = ReqURL /\ f.filename = ReqFile

(* What download_state.json may hold before the transfer begins: nothing,  *)
(* bytes that do not parse, or the finished-looking Progress of a transfer *)
(* of another url or to another file.                                      *)
ForeignPlan(u, f) ==
  [CreateNewProgress(u, f, 1, 1) EXCEPT !.parts[1].downloaded = 1,
                                        !.parts[1].done = TRUE]

Leftovers ==
  {NoProg, Corrupt, ForeignPlan(OtherURL, ReqFile), ForeignPlan(ReqURL, OtherFile)}

DInit ==
  /\ origin \in OriginModes
  /\ head \in HeadOutcomes
  /\ total \in 1..MaxSize
  /\ reqThreads \in 1..MaxThreads
  /\ leftover \in Leftovers
  /\ progressFile = leftover /\ outSize = NoFile /\ prog = NoProg
  /\ dpc = "load" /\ fpc = <<>> /\ body = <<>> /\ wpos = <<>>
  /\ snpc = "off" /\ sdata = NoProg /\ fdata = NoProg
  /\ resumed = FALSE /\ restarts = 0 /\ result = ""

(* LoadOrCreateProgress, up to the SaveProgress of a new Progress, given   *)
(* what LoadProgress read from download_state.json.                        *)
LoadOrCreateProgress_From(f) ==
  /\ IF Loadable(f) /\ Matches(f)
       THEN /\ prog' = f
            /\ resumed' = TRUE
            /\ dpc' = "start"
            /\ UNCHANGED <<progressFile, fdata, result>>
       ELSE LET r == SupportsRange(origin, head, total) IN
            IF ~r.ok
              THEN /\ dpc' = "done" /\ result' = "PROBE_FAILED"
                   /\ UNCHANGED <<prog, resumed, progressFile, fdata>>
              ELSE /\ prog' = CreateNewProgress(ReqURL, ReqFile, r.length,
                                 IF r.ranges THEN reqThreads ELSE 1)
                   /\ fdata' = prog'
                   /\ progressFile' = Corrupt
                   /\ resumed' = FALSE
                   /\ dpc' = "created"
                   /\ UNCHANGED result
  /\ UNCHANGED <<origin, total, reqThreads, outSize, fpc, body, wpos, snpc, sdata,
                 restarts>>
  /\ UNCHANGED <<qvars, svars>>

(* A LoadOrCreateProgress that gives up on a file that does not parse.     *)
LoadOrCreateProgress_CorruptFatal ==
  /\ dpc = "load"
  /\ IF progressFile = Corrupt
       THEN /\ dpc' = "done" /\ result' = "LOAD_FAILED"
            /\ UNCHANGED <<origin, total, reqThreads, progressFile, outSize, prog,
                           fpc, body, wpos, snpc, sdata, fdata, resumed, restarts>>
            /\ UNCHANGED <<qvars, svars>>
       ELSE LoadOrCreateProgress_From(progressFile)

LoadOrCreateProgress ==
  /\ dpc = "load"
  /\ LoadOrCreateProgress_From(progressFile)

(* os.WriteFile of the engine's SaveProgress finishes (after                *)
(* LoadOrCreateProgress's save, and after Download's final save).          *)
SaveProgress_Written ==
  /\ dpc \in {"created", "saving"}
  /\ progressFile' = fdata
  /\ fdata' = NoProg
  /\ dpc' = IF dpc = "created" THEN "start" ELSE "verify"
  /\ UNCHANGED <<origin, total, reqThreads, outSize, prog, fpc, body, wpos, snpc,
                 sdata, resumed, restarts, result>>
  /\ UNCHANGED <<qvars, svars>>

(* A Download that starts a fetcher for every part, done or not.           *)
Download_Start_AllParts ==
  /\ dpc = "start"
  /\ outSize' = IF outSize = NoFile THEN 0 ELSE outSize
  /\ fpc' = [i \in 1..Len(prog.parts) |-> "top"]
  /\ body' = [i \in 1..Len(prog.parts) |-> 0]
  /\ wpos' = [i \in 1..Len(prog.parts) |-> 0]
  /\ snpc' = "tick"
  /\ dpc' = "wait"
  /\ UNCHANGED <<origin, total, reqThreads, progressFile, prog, sdata, fdata,
                 resumed, restarts, result>>
  /\ UNCHANGED <<qvars, svars>>

(* Download, first part: create the output file if absent, start the       *)
(* snapshot goroutine and one downloadPart per part that is not done.      *)
Download_Start ==
  /\ dpc = "start"
  /\ outSize' = IF outSize = NoFile THEN 0 ELSE outSize
  /\ fpc' = [i \in 1..Len(prog.parts) |->
               IF prog.parts[i].done THEN "exit" ELSE "top"]
  /\ body' = [i \in 1..Len(prog.parts) |-> 0]
  /\ wpos' = [i \in 1..Len(prog.parts) |-> 0]
  /\ snpc' = "tick"
  /\ dpc' = "wait"
  /\ UNCHANGED <<origin, total, reqThreads, progressFile, prog, sdata, fdata,
                 resumed, restarts, result>>
  /\ UNCHANGED <<qvars, svars>>

(* downloadPart, top of the retry loop: the position, the ranged GET and   *)
(* the answer of the origin, OpenFile and Seek.  A transient failure       *)
(* (request error, other status, open or seek error) sleeps a second and   *)
(* comes back here with nothing changed.                                   *)
Responses(o, cs, end) ==
  CASE o = "range" -> {end - cs + 1}
    [] o = "whole" -> {total}
    [] OTHER       -> 0..total

DownloadPart_Request(i) ==
  /\ dpc = "wait" /\ i \in 1..Len(fpc) /\ fpc[i] = "top"
  /\ LET pt == prog.parts[i]
         cs == pt.start + pt.downloaded
     IN IF cs > pt.end
          THEN /\ prog' = [prog EXCEPT !.parts[i].done = TRUE]
               /\ fpc' = [fpc EXCEPT ![i] = "exit"]
               /\ UNCHANGED <<body, wpos>>
          ELSE /\ \E b \in Responses(origin, cs, pt.end) :
                    body' = [body EXCEPT ![i] = b]
               /\ wpos' = [wpos EXCEPT ![i] = cs]
               /\ fpc' = [fpc EXCEPT ![i] = "read"]
               /\ UNCHANGED prog
  /\ UNCHANGED <<origin, total, reqThreads, progressFile, outSize, dpc, snpc, sdata,
                 fdata, resumed, restarts, result>>
  /\ UNCHANGED <<qvars, svars>>

(* One resp.Body.Read of up to MaxRead bytes, written at the file offset   *)
(* and added to part.Downloaded.                                           *)
DownloadPart_Read(i) ==
  /\ dpc = "wait" /\ i \in 1..Len(fpc) /\ fpc[i] = "read"
  /\ body[i] > 0
  /\ \E n \in 1..Min(body[i], MaxRead) :
       /\ outSize' = Max(outSize, wpos[i] + n)
       /\ wpos' = [wpos EXCEPT ![i] = wpos[i] + n]
       /\ body' = [body EXCEPT ![i] = body[i] - n]
       /\ prog' = [prog EXCEPT !.parts[i].downloaded = @ + n]
  /\ UNCHANGED <<origin, total, reqThreads, progressFile, dpc, fpc, snpc, sdata,
                 fdata, resumed, restarts, result>>
  /\ UNCHANGED <<qvars, svars>>

(* A fetcher that gives up at the first stream that breaks with an error.  *)
DownloadPart_EndOfStream_GivesUp(i) ==
  /\ dpc = "wait" /\ i \in 1..Len(fpc) /\ fpc[i] = "read"
  /\ body[i] = 0
  /\ \E k \in {"eof", "err"} :
       /\ fpc' = [fpc EXCEPT ![i] = "exit"]
       /\ prog' = IF k = "eof" THEN [prog EXCEPT !.parts[i].done = TRUE] ELSE prog
  /\ UNCHANGED <<origin, total, reqThreads, progressFile, outSize, dpc, body, wpos,
                 snpc, sdata, fdata, resumed, restarts, result>>
  /\ UNCHANGED <<qvars, svars>>

(* An end of stream that forgets the bytes of the broken attempt.           *)
DownloadPart_EndOfStream_Rollback(i) ==
  /\ dpc = "wait" /\ i \in 1..Len(fpc) /\ fpc[i] = "read"
  /\ body[i] = 0
  /\ \E k \in {"eof", "err"} :
       IF k = "eof"
         THEN /\ prog' = [prog EXCEPT !.parts[i].done = TRUE]
              /\ fpc' = [fpc EXCEPT ![i] = "exit"]
         ELSE /\ fpc' = [fpc EXCEPT ![i] = "top"]
              /\ prog' = [prog EXCEPT !.parts[i].downloaded = 0]
  /\ UNCHANGED <<origin, total, reqThreads, progressFile, outSize, dpc, body, wpos,
                 snpc, sdata, fdata, resumed, restarts, result>>
  /\ UNCHANGED <<qvars, svars>>

(* The stream ends: io.EOF marks the part done; a read error leaves the    *)
(* inner loop, and the part is done if Downloaded covers it, else the      *)
(* outer loop retries.  Only an "any" origin breaks a stream with an error.*)
StreamEnds(o) == IF o = "any" THEN {"eof", "err"} ELSE {"eof"}

DownloadPart_EndOfStream(i) ==
  /\ dpc = "wait" /\ i \in 1..Len(fpc) /\ fpc[i] = "read"
  /\ body[i] = 0
  /\ \E k \in StreamEnds(origin) :
       IF k = "eof" \/ prog.parts[i].downloaded >= PartSize(prog.parts[i])
         THEN /\ prog' = [prog EXCEPT !.parts[i].done = TRUE]
              /\ fpc' = [fpc EXCEPT ![i] = "exit"]
         ELSE /\ fpc' = [fpc EXCEPT ![i] = "top"]
              /\ UNCHANGED prog
  /\ UNCHANGED <<origin, total, reqThreads, progressFile, outSize, dpc, body, wpos,
                 snpc, sdata, fdata, resumed, restarts, result>>
  /\ UNCHANGED <<qvars, svars>>

(* The snapshot goroutine, every 500 ms: SaveProgress = MarshalIndent,     *)
(* then os.WriteFile, which truncates the file and then writes it.         *)
Snapshot_Marshal ==
  /\ dpc = "wait" /\ snpc = "tick"
  /\ sdata' = prog
  /\ progressFile' = Corrupt
  /\ snpc' = "write"
  /\ UNCHANGED <<origin, total, reqThreads, outSize, prog, dpc, fpc, body, wpos,
                 fdata, resumed, restarts, result>>
  /\ UNCHANGED <<qvars, svars>>

Snapshot_Written ==
  /\ snpc \in {"write", "unlinked"}
  /\ progressFile' = IF snpc = "write" THEN sdata ELSE progressFile
  /\ sdata' = NoProg
  /\ snpc' = IF dpc = "wait" THEN "tick" ELSE "off"
  /\ UNCHANGED <<origin, total, reqThreads, outSize, prog, dpc, fpc, body, wpos,
                 fdata, resumed, restarts, result>>
  /\ UNCHANGED <<qvars, svars>>

(* Download, second part: wg.Wait returns, cancel() stops the snapshot     *)
(* goroutine at its next select, and the final SaveProgress starts.        *)
Download_Join_NoWait ==
  /\ dpc = "wait"
  /\ snpc' = IF snpc = "tick" THEN "off" ELSE snpc
  /\ fdata' = prog
  /\ progressFile' = Corrupt
  /\ dpc' = "saving"
  /\ UNCHANGED <<origin, total, reqThreads, outSize, prog, fpc, body, wpos, sdata,
                 resumed, restarts, result>>
  /\ UNCHANGED <<qvars, svars>>

Download_Join ==
  /\ dpc = "wait"
  /\ \A i \in 1..Len(fpc) : fpc[i] = "exit"
  /\ snpc' = IF snpc = "tick" THEN "off" ELSE snpc
  /\ fdata' = prog
  /\ progressFile' = Corrupt
  /\ dpc' = "saving"
  /\ UNCHANGED <<origin, total, reqThreads, outSize, prog, fpc, body, wpos, sdata,
                 resumed, restarts, result>>
  /\ UNCHANGED <<qvars, svars>>

(* VerifyDownload: a part not done returns an error.  All parts done: the  *)
(* os.Stat of the output file succeeds and the size equals TotalSize, then *)
(* download_state.json is removed and nil returned; the size differs, an   *)
(* error is returned; os.Stat fails, the function falls through to its     *)
(* last line and returns nil.                                              *)
StatOutcomes == {"ok", "err"}

VerifyDownload ==
  /\ dpc = "verify"
  /\ \E st \in StatOutcomes :
       IF IsComplete(prog)
         THEN IF st = "ok"
                THEN IF outSize = prog.total
                       THEN /\ result' = "SUCCESS"
                            /\ progressFile' = NoProg
                            /\ snpc' = IF snpc = "write" THEN "unlinked" ELSE snpc
                       ELSE /\ result' = "INCOMPLETE"
                            /\ UNCHANGED <<progressFile, snpc>>
                ELSE /\ result' = "SUCCESS"
                     /\ UNCHANGED <<progressFile, snpc>>
         ELSE /\ st = "ok"
              /\ result' = "INCOMPLETE"
              /\ UNCHANGED <<progressFile, snpc>>
  /\ dpc' = "done"
  /\ UNCHANGED <<origin, total, reqThreads, outSize, prog, fpc, body, wpos, sdata,
                 fdata, resumed, restarts>>
  /\ UNCHANGED <<qvars, svars>>

(* The process is killed during a run and the transfer is started again    *)
(* with the same url and output path.                                      *)
Interrupt ==
  /\ dpc \notin {"off", "done"}
  /\ restarts < MaxRestarts
  /\ restarts' = restarts + 1
  /\ prog' = NoProg /\ fpc' = <<>> /\ body' = <<>> /\ wpos' = <<>>
  /\ snpc' = "off" /\ sdata' = NoProg /\ fdata' = NoProg
  /\ resumed' = FALSE /\ result' = ""
  /\ dpc' = "load"
  /\ UNCHANGED <<origin, total, reqThreads, progressFile, outSize>>
  /\ UNCHANGED <<qvars, svars>>

NextDL ==
  \/ LoadOrCreateProgress
  \/ SaveProgress_Written
  \/ Download_Start
  \/ \E i \in 1..MaxThreads : DownloadPart_Request(i)
  \/ \E i \in 1..MaxThreads : DownloadPart_Read(i)
  \/ \E i \in 1..MaxThreads : DownloadPart_EndOfStream(i)
  \/ Snapshot_Marshal
  \/ Snapshot_Written
  \/ Download_Join
  \/ VerifyDownload
  \/ Interrupt

InitDL == QInit /\ DInit

SpecDL == InitDL /\ [][NextDL]_vars

(***************************************************************************)
(* Worker.Stop while the worker runs a transfer.  Stop cancels Worker.ctx  *)
(* and waits on Worker.wg.  processJobs looks at Worker.ctx only at the    *)
(* top of its loop, between two jobs; processDownloadJob and Download run  *)
(* on contexts of their own (context.Background()), and the context the    *)
(* fetchers watch is cancelled by Download itself, after wg.Wait.          *)
(***************************************************************************)
Worker_Stop ==
  /\ stop = "running"
  /\ dpc \notin {"off", "done"}
  /\ stop' = "stopping"
  /\ UNCHANGED <<qvars, dvars, mstatus, head, leftover, reqT, jobThreads, run2>>

(* processDownloadJob has returned, processJobs finds ctx.Done() and       *)
(* returns, wg.Done() lets Stop's wg.Wait return.                          *)
Worker_Exit ==
  /\ stop = "stopping"
  /\ dpc = "done"
  /\ stop' = "stopped"
  /\ UNCHANGED <<qvars, dvars, mstatus, head, leftover, reqT, jobThreads, run2>>

FetcherStep(i) ==
  DownloadPart_Request(i) \/ DownloadPart_Read(i) \/ DownloadPart_EndOfStream(i)

NextStop ==
  \/ LoadOrCreateProgress
  \/ SaveProgress_Written
  \/ Download_Start
  \/ \E i \in 1..MaxThreads : DownloadPart_Request(i)
  \/ \E i \in 1..MaxThreads : DownloadPart_Read(i)
  \/ \E i \in 1..MaxThreads : DownloadPart_EndOfStream(i)
  \/ Snapshot_Marshal
  \/ Snapshot_Written
  \/ Download_Join
  \/ VerifyDownload
  \/ Worker_Stop
  \/ Worker_Exit

(* The goroutines of the process keep being scheduled; Stop may or may not *)
(* be called.                                                              *)
FairStop ==
  /\ InitDL /\ [][NextStop]_vars
  /\ WF_vars(LoadOrCreateProgress)
  /\ WF_vars(SaveProgress_Written)
  /\ WF_vars(Download_Start)
  /\ \A i \in 1..MaxThreads : WF_vars(FetcherStep(i))
  /\ WF_vars(Snapshot_Marshal \/ Snapshot_Written)
  /\ WF_vars(Download_Join)
  /\ WF_vars(VerifyDownload)
  /\ WF_vars(Worker_Exit)

(***************************************************************************)
(* A panic while a worker processes a job.  Neither processJobs nor        *)
(* processDownloadJob defers a recover(), so the Go runtime ends the       *)
(* process: nothing more is written for the job.                           *)
(***************************************************************************)
Panic(w) ==
  /\ alive[w]
  /\ pc[w] \in {"create_db", "engine"}
  /\ alive' = [alive EXCEPT ![w] = FALSE]
  /\ pc' = [pc EXCEPT ![w] = "panicked"]
  /\ job' = [job EXCEPT ![w] = NoJob]
  /\ errMsg' = [errMsg EXCEPT ![w] = "panic"]
  /\ rd' = [rd EXCEPT ![w] = NoStatus]
  /\ tpc' = [tpc EXCEPT ![w] = "off"]
  /\ trd' = [trd EXCEPT ![w] = NoStatus]
  /\ spc' = [spc EXCEPT ![w] = "crashed"]
  /\ sjobs' = [sjobs EXCEPT ![w] = <<>>]
  /\ scur' = [scur EXCEPT ![w] = NoJob]
  /\ UNCHANGED <<pending, processing, completed, failed, status, db, enq, epc, now,
                 requeued>>
  /\ UNCHANGED <<dvars, svars>>

NextPanic ==
  \/ EnqueueJob_LPush(NumJobs)
  \/ EnqueueJob_SetStatus
  \/ \E w \in Workers : WorkerStep(w)
  \/ \E w \in Workers : Panic(w)

SpecPanic == Init /\ [][NextPanic]_vars

(***************************************************************************)
(* enqueueDownloadHandler (POST /downloads) for a request whose threads    *)
(* field is t (0 when the field is missing): the default, the limit, the   *)
(* new DownloadJob and the LPUSH of EnqueueJob; EnqueueJob_SetStatus is    *)
(* the rest of the call.  A request over the limit is answered 400.        *)
(***************************************************************************)
DefaultThreads == 4
ThreadLimit == 16
ThreadInputs == {-1, 0, 1, ThreadLimit, ThreadLimit + 1}

EnqueueDownloadHandler(t) ==
  /\ epc = "idle"
  /\ enq < NumJobs
  /\ reqT' = t
  /\ LET threads == IF t <= 0 THEN DefaultThreads ELSE t IN
     IF threads > ThreadLimit
       THEN UNCHANGED <<enq, pending, epc, jobThreads>>
       ELSE /\ enq' = enq + 1
            /\ pending' = LPush(pending, DownloadJob(enq + 1, ZeroTime, NoWorker))
            /\ jobThreads' = [jobThreads EXCEPT ![enq + 1] = threads]
            /\ epc' = "status"
  /\ UNCHANGED <<processing, completed, failed, status, db, now, alive, pc, job,
                 errMsg, rd, tpc, trd, spc, sjobs, scur, requeued>>
  /\ UNCHANGED <<dvars, stop, mstatus, head, leftover, run2>>

NextAdmit ==
  \/ \E t \in ThreadInputs : EnqueueDownloadHandler(t)
  \/ EnqueueJob_SetStatus
  \/ \E w \in Workers : WorkerStep(w)

SpecAdmit == Init /\ [][NextAdmit]_vars

(***************************************************************************)
(* The non-queue server: startDownloadHandler runs LoadOrCreateProgress,   *)
(* Download and VerifyDownload in a goroutine and then sets the status of  *)
(* the ManagedDownload; pauseDownloadHandler cancels ManagedDownload's     *)
(* Context and sets the status "paused".  That context is watched by the   *)
(* goroutine that copies the progress to the database; Download runs on a  *)
(* context of its own.                                                     *)
(***************************************************************************)
PauseDownload ==
  /\ mstatus = "downloading"
  /\ dpc # "off"
  /\ mstatus' = "paused"
  /\ UNCHANGED <<qvars, dvars, stop, head, leftover, reqT, jobThreads, run2>>

StartDownload_Finish ==
  /\ dpc = "done"
  /\ mstatus \in {"downloading", "paused"}
  /\ mstatus' = IF result = "SUCCESS" THEN "completed" ELSE "failed"
  /\ UNCHANGED <<qvars, dvars, stop, head, leftover, reqT, jobThreads, run2>>

NextPause ==
  \/ LoadOrCreateProgress
  \/ SaveProgress_Written
  \/ Download_Start
  \/ \E i \in 1..MaxThreads : DownloadPart_Request(i)
  \/ \E i \in 1..MaxThreads : DownloadPart_Read(i)
  \/ \E i \in 1..MaxThreads : DownloadPart_EndOfStream(i)
  \/ Snapshot_Marshal
  \/ Snapshot_Written
  \/ Download_Join
  \/ VerifyDownload
  \/ PauseDownload
  \/ StartDownload_Finish

SpecPause == InitDL /\ [][NextPause]_vars

(***************************************************************************)
(* resumeDownloadHandler: a paused download gets a new Context, the status *)
(* "downloading" and a goroutine that calls Download and VerifyDownload on *)
(* the Downloader of the ManagedDownload, the one the goroutine of         *)
(* startDownloadHandler was given.  One resume is followed.                *)
(***************************************************************************)
ResumeDownload ==
  /\ mstatus = "paused"
  /\ run2 = NoRun
  /\ mstatus' = "downloading"
  /\ run2' = [st |-> "start", live |-> {}]
  /\ UNCHANGED <<qvars, dvars, stop, head, leftover, reqT, jobThreads>>

(* Download as called by the resume goroutine: the output file is created  *)
(* if absent and one downloadPart is started per part that is not done.    *)
(* With Progress still nil the loop over its parts panics; the goroutine   *)
(* recovers and sets the status "failed".                                  *)
Resume_Download_Start ==
  /\ run2.st = "start"
  /\ outSize' = IF outSize = NoFile THEN 0 ELSE outSize
  /\ IF prog = NoProg
       THEN /\ run2' = [st |-> "done", live |-> {}]
            /\ mstatus' = "failed"
       ELSE /\ run2' = [st |-> "wait",
                        live |-> {i \in 1..Len(prog.parts) : ~prog.parts[i].done}]
            /\ UNCHANGED mstatus
  /\ UNCHANGED <<origin, total, reqThreads, progressFile, prog, dpc, fpc, body, wpos,
                 snpc, sdata, fdata, resumed, restarts, result>>
  /\ UNCHANGED <<qvars, stop, head, leftover, reqT, jobThreads>>

(* One turn of the retry loop of a downloadPart of the resume goroutine:   *)
(* the request from start + downloaded, the body copied to the file and    *)
(* added to part.Downloaded, the end of the stream and the test that       *)
(* leaves the loop.                                                        *)
Resume_DownloadPart(i) ==
  /\ run2.st = "wait" /\ i \in run2.live
  /\ LET pt == prog.parts[i]
         cs == pt.start + pt.downloaded
     IN IF cs > pt.end
          THEN /\ prog' = [prog EXCEPT !.parts[i].done = TRUE]
               /\ run2' = [run2 EXCEPT !.live = @ \ {i}]
               /\ UNCHANGED outSize
          ELSE \E b \in Responses(origin, cs, pt.end), k \in StreamEnds(origin) :
                 LET fin == pt.done \/ k = "eof" \/ pt.downloaded + b >= PartSize(pt)
                 IN /\ outSize' = IF b > 0 THEN Max(outSize, cs + b) ELSE outSize
                    /\ prog' = [prog EXCEPT !.parts[i].downloaded = @ + b,
                                            !.parts[i].done = fin]
                    /\ run2' = IF fin THEN [run2 EXCEPT !.live = @ \ {i}] ELSE run2
  /\ UNCHANGED <<origin, total, reqThreads, progressFile, dpc, fpc, body, wpos, snpc,
                 sdata, fdata, resumed, restarts, result>>
  /\ UNCHANGED <<qvars, stop, mstatus, head, leftover, reqT, jobThreads>>

(* A tick of the snapshot goroutine of the resumed Download.               *)
Resume_Snapshot ==
  /\ run2.st = "wait"
  /\ progressFile' = prog
  /\ UNCHANGED <<origin, total, reqThreads, outSize, prog, dpc, fpc, body, wpos, snpc,
                 sdata, fdata, resumed, restarts, result>>
  /\ UNCHANGED <<qvars, svars>>

(* The resumed Download returns after its fetchers did and saves the Plan; *)
(* VerifyDownload follows and the goroutine sets the status.               *)
Resume_Finish ==
  /\ run2.st = "wait" /\ run2.live = {}
  /\ \E st \in StatOutcomes :
       LET removes == IsComplete(prog) /\ st = "ok" /\ outSize = prog.total
           ok == IsComplete(prog) /\ (st = "err" \/ outSize = prog.total)
       IN /\ ~IsComplete(prog) => st = "ok"
          /\ progressFile' = IF removes THEN NoProg ELSE prog
          /\ snpc' = IF removes /\ snpc = "write" THEN "unlinked" ELSE snpc
          /\ mstatus' = IF ok THEN "completed" ELSE "failed"
  /\ run2' = [st |-> "done", live |-> {}]
  /\ UNCHANGED <<origin, total, reqThreads, outSize, prog, dpc, fpc, body, wpos, sdata,
                 fdata, resumed, restarts, result>>
  /\ UNCHANGED <<qvars, stop, head, leftover, reqT, jobThreads>>

NextResume ==
  \/ LoadOrCreateProgress
  \/ SaveProgress_Written
  \/ Download_Start
  \/ \E i \in 1..MaxThreads : DownloadPart_Request(i)
  \/ \E i \in 1..MaxThreads : DownloadPart_Read(i)
  \/ \E i \in 1..MaxThreads : DownloadPart_EndOfStream(i)
  \/ Snapshot_Marshal
  \/ Snapshot_Written
  \/ Download_Join
  \/ VerifyDownload
  \/ PauseDownload
  \/ StartDownload_Finish
  \/ ResumeDownload
  \/ Resume_Download_Start
  \/ \E i \in 1..MaxThreads : Resume_DownloadPart(i)
  \/ Resume_Snapshot
  \/ Resume_Finish

(* The download starts with no progress file left behind, an origin that   *)
(* answers the HEAD request and a file of at most ResumeSize bytes.        *)
InitResume == InitDL /\ head = "ok" /\ leftover = NoProg /\ total <= ResumeSize

SpecResume == InitResume /\ [][NextResume]_vars

(***************************************************************************)
(* Claims.                                                                 *)
(***************************************************************************)
Terminal == {"completed", "failed"}

(* Worker w is between a DequeueJob that returned job j and its own        *)
(* CompleteJob / FailJob call for it.                                      *)
Holding(w, j) ==
  /\ alive[w]
  /\ job[w].id = j
  /\ pc[w] \in {"deq_status", "create_db", "engine", "complete_rem", "fail_rem"}

(* C1: for each job id at most one worker is between a reserve that        *)
(* returned the job and its own complete/fail call for it.                 *)
C1_OneHolderPerJob ==
  \A j \in Jobs : Cardinality({w \in Workers : Holding(w, j)}) <= 1

(* C2: each job id occurs at most once in total across the pending,        *)
(* in_flight, completed and failed lists.                                  *)
C2_OneEntryPerJob ==
  \A j \in Jobs :
    Count(pending, j) + Count(processing, j)
      + Count(completed, j) + Count(failed, j) <= 1

(* C3: under fairness, every job that was enqueued eventually has status   *)
(* COMPLETED or FAILED, also when a worker process crashes.                *)
C3_EventuallyTerminal ==
  \A j \in Jobs : [](j > enq) \/ <>(status[j].state \in Terminal)

(* C4: every change of a job's status state is QUEUED->PROCESSING,         *)
(* PROCESSING->COMPLETED, PROCESSING->FAILED or PROCESSING->QUEUED (the    *)
(* creation of the entry aside); COMPLETED and FAILED never change.        *)
AllowedTransition(a, b) ==
  \/ a = b
  \/ a = "none"
  \/ <<a, b>> \in {<<"queued", "processing">>, <<"processing", "completed">>,
                   <<"processing", "failed">>, <<"processing", "queued">>}

C4_StatusTransitions ==
  [][\A j \in Jobs : AllowedTransition(status[j].state, status'[j].state)]_vars

(* The reservation of job j that some worker still holds is at most / more *)
(* than JobProcessingTimeout old (started_at is DequeueJob's time.Now()).  *)
YoungReservation(j) ==
  /\ \E v \in Workers : Holding(v, j)
  /\ \A v \in Workers : Holding(v, j) => now - job[v].startedAt <= JobProcessingTimeout

OldReservation(j) ==
  \E v \in Workers : Holding(v, j) /\ now - job[v].startedAt > JobProcessingTimeout

(* The cleanup routine of w examines the next entry of its snapshot.       *)
Examines(w) ==
  /\ spc[w] = "loop" /\ sjobs[w] # <<>>
  /\ sjobs'[w] = Tail(sjobs[w])

(* C5: reclaim_orphans changes nothing for an in_flight entry whose        *)
(* reservation is younger than PROCESSING_TIMEOUT: it stays in in_flight,  *)
(* is not pushed to pending, and its status stays as it is.                *)
C5_YoungEntryKept ==
  [][\A w \in Workers :
       (Examines(w) /\ YoungReservation(Head(sjobs[w]).id))
         => /\ processing' = processing
            /\ pending' = pending
            /\ spc'[w] = "loop"]_vars

(* C6: a job that reclaim_orphans returned to pending and that a worker    *)
(* reserved again is run by the Download Engine: the worker calls fail for *)
(* it only with an error the engine reported.                              *)
C6_RedispatchRunsEngine ==
  \A w \in Workers :
    (job[w].id \in requeued /\ pc[w] \in {"fail_rem", "fail_set"})
      => errMsg[w] = "engine"

(* C7: once every enqueued job has been completed or failed by a worker,   *)
(* each job id is in exactly one of the completed and failed lists and the *)
(* total of stats() equals the number of jobs enqueued.                    *)
AllSettled ==
  /\ enq > 0 /\ epc = "idle"
  /\ \A j \in 1..enq : status[j].state \in Terminal
  /\ \A w \in Workers : alive[w] /\ pc[w] = "idle"

C7_TerminalListsAndStats ==
  AllSettled =>
    /\ \A j \in 1..enq : Count(completed, j) + Count(failed, j) = 1
    /\ GetQueueStats.total = enq

InWorkLists(j) == InList(pending, j) \/ InList(processing, j)

C9_ReserveLosesNoJob ==
  [][\A j \in Jobs :
       (InWorkLists(j) /\ ~InWorkLists(j)')
         => \E w \in Workers :
              /\ job[w].id = j
              /\ pc[w] \in {"complete_rem", "fail_rem"}
              /\ pc'[w] \in {"complete_set", "fail_set"}]_vars

(* A worker process crashed right after its reserve: its job is in         *)
(* in_flight, no live worker holds it and its status was never set.        *)
C9_Witness ==
  \E j \in Jobs :
    /\ InList(processing, j) /\ ~InList(pending, j)
    /\ \E w \in Workers : ~alive[w]
    /\ \A w \in Workers : job[w].id # j
    /\ status[j].state \in {"none", "queued"}

(* C10: after an interruption that left a valid Progress Store file, the   *)
(* restarted run against an origin that serves every request ("range" or   *)
(* "whole") ends with SUCCESS and an output file of total_size bytes.      *)
C10_ResumeSucceeds ==
  (dpc = "done" /\ resumed /\ restarts > 0 /\ origin \in {"range", "whole"})
    => (result = "SUCCESS" /\ outSize = total)

(* C11: in every state of an engine run every range has                    *)
(* 0 <= downloaded <= end - start + 1, whatever accepted answer the origin *)
(* gives to a ranged request, a resuming request included.                 *)
C11_DownloadedBounded ==
  \A i \in 1..Len(prog.parts) :
    /\ 0 <= prog.parts[i].downloaded
    /\ prog.parts[i].downloaded <= PartSize(prog.parts[i])

(* C12: a range with done = true has downloaded = end - start + 1.         *)
C12_DoneMeansFull ==
  \A i \in 1..Len(prog.parts) :
    prog.parts[i].done => prog.parts[i].downloaded = PartSize(prog.parts[i])

(* C13: every byte a fetcher writes lies at an offset inside its own range *)
(* [start, end]: a write step of fetcher i covers the offsets from its     *)
(* file position up to the new position, all within the range.             *)
C13_WritesInsideOwnRange ==
  [][\A i \in 1..Len(fpc) :
       (fpc[i] = "read" /\ i \in DOMAIN wpos' /\ wpos'[i] > wpos[i])
         => /\ prog.parts[i].start <= wpos[i]
            /\ wpos'[i] - 1 <= prog.parts[i].end]_vars

(* C14: the Plan of a fresh transfer of total_size bytes with N ranges:    *)
(* the ranges are contiguous in index order from offset 0, pairwise        *)
(* disjoint, their union is [0, total_size), ranges 0..N-2 have            *)
(* floor(total_size / N) bytes each and the last one ends at total_size-1. *)
Extent(pt) == pt.start .. pt.end

C14_PlanPartitionsFile ==
  prog # NoProg =>
    LET ps == prog.parts
        N  == Len(ps)
    IN /\ N \in 1..MaxThreads
       /\ ps[1].start = 0
       /\ \A i \in 1..(N - 1) :
            /\ ps[i + 1].start = ps[i].end + 1
            /\ PartSize(ps[i]) = prog.total \div N
       /\ ps[N].end = prog.total - 1
       /\ \A i, k \in 1..N : i # k => Extent(ps[i]) \cap Extent(ps[k]) = {}
       /\ UNION {Extent(ps[i]) : i \in 1..N} = 0..(prog.total - 1)

(* A fresh plan of two ranges whose last range absorbs a remainder.        *)
C14_Witness ==
  /\ dpc = "created" /\ ~resumed
  /\ Len(prog.parts) = 2
  /\ prog.total % 2 = 1 /\ prog.total > 2
  /\ PartSize(prog.parts[2]) > PartSize(prog.parts[1])

(* C15: every range of every Plan the engine creates has start <= end.     *)
C15_StartNotAfterEnd ==
  \A i \in 1..Len(prog.parts) : prog.parts[i].start <= prog.parts[i].end

(* C16: within one Plan no step decreases a range's downloaded counter or  *)
(* turns done from true to false, a retry after a transient error          *)
(* included.                                                               *)
C16_PlanMonotonic ==
  [][(prog # NoProg /\ prog' # NoProg) =>
       /\ Len(prog'.parts) = Len(prog.parts)
       /\ \A i \in 1..Len(prog.parts) :
            /\ prog'.parts[i].downloaded >= prog.parts[i].downloaded
            /\ prog.parts[i].done => prog'.parts[i].done]_vars

(* A fetcher is back at the top of its loop after a stream that broke with *)
(* an error, with the bytes of the broken attempt counted.                 *)
C16_Witness ==
  /\ dpc = "wait" /\ ~resumed /\ origin = "any"
  /\ \E i \in 1..Len(fpc) :
       /\ fpc[i] = "top"
       /\ prog.parts[i].downloaded > 0
       /\ ~prog.parts[i].done

(* C17: two transfers that run at the same time in one worker process use  *)
(* distinct Progress Store files.  No process has crashed, so the workers  *)
(* may be goroutines of one process (main starts three).                   *)
RunsEngine(w) == alive[w] /\ pc[w] = "engine"

C17_DistinctProgressFiles ==
  \A w, v \in Workers :
    (w # v /\ RunsEngine(w) /\ RunsEngine(v) /\ job[w].id # job[v].id
       /\ \A x \in Workers : alive[x])
      => NewDownloader(job[w].id, job[w].id, 1).progressFile
           # NewDownloader(job[v].id, job[v].id, 1).progressFile

(* C18: at every instant the Progress Store file, when it exists, holds a  *)
(* complete snapshot written by an earlier save, never a partial one.      *)
C18_FileNeverPartial == progressFile # Corrupt

(* C19: verification returns SUCCESS only when every range is done and the *)
(* size of the output file equals total_size, and it has then deleted the  *)
(* Progress Store file.                                                    *)
C19_SuccessOnlyWhenVerified ==
  (dpc = "done" /\ result = "SUCCESS") =>
    /\ IsComplete(prog)
    /\ outSize = prog.total
    /\ progressFile = NoProg

(* C20: a Stop called while the engine runs returns: under fair scheduling *)
(* of every goroutine, stopping leads to stopped.                          *)
C20_StopReturns == (stop = "stopping") ~> (stop = "stopped")

(* C21: a panic while a worker processes a reserved job is caught: the     *)
(* step that raises it leaves the worker running, about to call fail for   *)
(* that job.                                                               *)
C21_PanicBecomesFail ==
  [][\A w \in Workers :
       (errMsg'[w] = "panic" /\ errMsg[w] # "panic")
         => /\ alive'[w]
            /\ job'[w] = job[w]
            /\ pc'[w] = "fail_rem"]_vars

(* C22: reclaim_orphans is idempotent, also when two cleanup routines run  *)
(* it at the same time: a job it has pushed back has one entry in the work *)
(* lists.                                                                  *)
C22_RequeuedOnce ==
  \A j \in requeued : Count(pending, j) + Count(processing, j) <= 1

(* C23: a Plan created after a probe that reported no range support has   *)
(* the one range [0, total_size - 1], and the engine starts one fetcher,   *)
(* whatever thread count was requested.                                    *)
C23_NoRangesOneFetcher ==
  (origin = "whole" /\ prog # NoProg) =>
    /\ Len(prog.parts) = 1
    /\ prog.parts[1].start = 0
    /\ prog.parts[1].end = total - 1
    /\ dpc = "wait" => Len(fpc) = 1

C23_Witness ==
  /\ origin = "whole" /\ reqThreads > 1 /\ ~resumed
  /\ dpc = "wait" /\ Len(fpc) = 1 /\ fpc[1] = "read"

(* C24: when the origin answers the HEAD with a non-success status but     *)
(* serves ranged requests, the probe does not fail.                        *)
C24_HeadRejectedFallsBack ==
  (head = "status" /\ origin = "range") => result # "PROBE_FAILED"

(* C25: LoadOrCreateProgress resumes from the loaded Plan if and only if   *)
(* its url and output path both equal the request's; otherwise the Plan is *)
(* discarded, the origin probed and a fresh Plan created with every range  *)
(* at downloaded = 0 and done = false.                                     *)
C25_ResumeIffSameTransfer ==
  [][(dpc = "load" /\ dpc' # "load") =>
       IF /\ Loadable(progressFile)
          /\ progressFile.url = ReqURL
          /\ progressFile.filename = ReqFile
         THEN resumed' /\ prog' = progressFile
         ELSE /\ ~resumed'
              /\ dpc' \in {"created", "done"}
              /\ dpc' = "created" =>
                   /\ prog'.url = ReqURL /\ prog'.filename = ReqFile
                   /\ \A i \in 1..Len(prog'.parts) :
                        prog'.parts[i].downloaded = 0 /\ ~prog'.parts[i].done]_vars

(* The file held the Plan of a transfer of the same url to another file,   *)
(* and the engine created a fresh Plan.                                    *)
C25_Witness ==
  /\ leftover = ForeignPlan(ReqURL, OtherFile)
  /\ restarts = 0 /\ dpc = "created" /\ ~resumed
  /\ prog.filename = ReqFile

(* C26: a Progress Store file that is missing or does not parse is treated *)
(* as absent: the engine probes the origin and, the probe succeeding,      *)
(* creates a new Plan; it fails only if the probe fails.                   *)
C26_CorruptFileIsAbsent ==
  [][(dpc = "load" /\ dpc' # "load" /\ progressFile \in {NoProg, Corrupt}) =>
       /\ ~resumed'
       /\ IF SupportsRange(origin, head, total).ok
            THEN dpc' = "created" /\ result' = "" /\ prog'.total = total
            ELSE dpc' = "done" /\ result' = "PROBE_FAILED"]_vars

C26_Witness ==
  /\ leftover = Corrupt /\ restarts = 0
  /\ dpc = "created" /\ prog.total = total

(* C27: update_progress on an existing status entry keeps state, worker_id *)
(* and error_message as the entry holds them when the update is written,   *)
(* also when another writer changed the entry since the update read it.    *)
C27_ProgressKeepsOtherFields ==
  [][\A w \in Workers :
       (tpc[w] = "set" /\ tpc'[w] = "tick" /\ status[job[w].id] # NoStatus)
         => /\ status'[job[w].id].state = status[job[w].id].state
            /\ status'[job[w].id].workerID = status[job[w].id].workerID
            /\ status'[job[w].id].error = status[job[w].id].error]_vars

(* C28: every admitted job has a thread count in 1..16: a request with a   *)
(* missing or non-positive count is enqueued with 4, one asking for more   *)
(* than 16 is enqueued with 16, any other with the count it asked for.     *)
C28_ThreadsClamped ==
  [][(epc = "idle" /\ (reqT' # reqT \/ enq' # enq)) =>
       /\ enq' = enq + 1
       /\ jobThreads'[enq'] = (IF reqT' <= 0 THEN 4
                                ELSE IF reqT' > 16 THEN 16 ELSE reqT')]_vars

(* C29: while a download of the non-queue server has status paused, no     *)
(* step advances a range's downloaded counter (a fetcher adds every byte   *)
(* it writes to the counter in the same step).                             *)
C29_PausedMakesNoProgress ==
  [][(mstatus = "paused" /\ mstatus' = "paused") =>
       \A i \in 1..Len(prog.parts) :
         prog'.parts[i].downloaded = prog.parts[i].downloaded]_vars

(* C30: while worker W processes a job that reserve returned to it, the    *)
(* job's entry in in_flight carries the started_at of the reservation and  *)
(* worker_id = W.                                                          *)
C30_EntryCarriesReservation ==
  \A w \in Workers :
    (alive[w] /\ pc[w] \in {"deq_status", "create_db", "engine"}) =>
      \E k \in 1..Len(processing) :
        /\ processing[k].id = job[w].id
        /\ processing[k].startedAt = job[w].startedAt
        /\ processing[k].workerID = w

(* C31: for every job reserve returned, the worker calls exactly one of    *)
(* complete and fail before it reserves again: it goes back to DequeueJob  *)
(* only from the end of processDownloadJob, reaches that end only from the *)
(* last step of the complete path or of the fail path, enters complete     *)
(* only after the engine, fail only after the record creation or the       *)
(* engine, and never passes from one path to the other.                    *)
CompletePath == {"complete_rem", "complete_set", "final_get", "final_set"}
FailPath == {"fail_rem", "fail_set"}

C31_ExactlyOneReport ==
  [][\A w \in Workers :
       (alive[w] /\ alive'[w] /\ pc'[w] # pc[w]) =>
         /\ pc'[w] = "idle" => pc[w] = "ret"
         /\ pc'[w] = "ret" => pc[w] \in {"final_set", "fail_set"}
         /\ pc'[w] = "complete_rem" => pc[w] = "engine"
         /\ pc'[w] = "fail_rem" => pc[w] \in {"create_db", "engine"}
         /\ pc'[w] = "complete_set" => pc[w] = "complete_rem"
         /\ pc'[w] = "fail_set" => pc[w] = "fail_rem"
         /\ pc[w] \in CompletePath => pc'[w] \notin FailPath
         /\ pc[w] \in FailPath => pc'[w] \notin CompletePath
         /\ pc[w] \in {"create_db", "engine"}
              => pc'[w] \in {"engine", "complete_rem", "fail_rem"}]_vars

(* A worker at the end of processDownloadJob after the record creation     *)
(* failed and fail was called.                                             *)
C31_Witness ==
  \E w \in Workers :
    /\ alive[w] /\ pc[w] = "ret" /\ errMsg[w] = "db"
    /\ status[job[w].id].state = "failed"

(* C35: reclaim_orphans goes on to push a job back only when its own       *)
(* removal step deleted an entry of in_flight.                             *)
C35_RequeueOnlyIfRemoved ==
  [][\A w \in Workers :
       (Examines(w) /\ spc'[w] = "push") => processing' # processing]_vars

(* C36: whenever the status of a job is COMPLETED or FAILED, no entry of   *)
(* it is in pending or in in_flight.                                       *)
C36_TerminalNotListed ==
  \A j \in Jobs :
    status[j].state \in Terminal
      => ~InList(pending, j) /\ ~InList(processing, j)

(* C37: reclaim_orphans never loses a job: at every point of a run, where  *)
(* the process may crash or the next store call fail, each job the run has *)
(* taken out of in_flight is present in pending or in in_flight.  The step *)
(* of a run that removes an entry leaves the job in one of the two lists.  *)
C37_RemovedJobStaysListed ==
  [][\A w \in Workers :
       (Examines(w) /\ spc'[w] = "push" /\ processing' # processing)
         => \/ InList(pending', Head(sjobs[w]).id)
            \/ InList(processing', Head(sjobs[w]).id)]_vars

(* C39: without reclamation jobs are reserved in the order of their        *)
(* enqueues: no reserve returns a job while a job enqueued before it is    *)
(* still in pending.                                                       *)
C39_ReservedInEnqueueOrder ==
  [][\A w \in Workers :
       (pc[w] = "idle" /\ pc'[w] = "deq_status")
         => \A a \in Jobs : a < job'[w].id => ~InList(pending, a)]_vars

(* A worker reserved the first job while the second one waited in pending. *)
C39_Witness ==
  \E w \in Workers :
    /\ alive[w] /\ pc[w] = "deq_status" /\ job[w].id = 1
    /\ InList(pending, 2)

(* C32: when Download has returned, the Progress Store file holds the      *)
(* final Plan, whatever the interleaving of the snapshot goroutine's save  *)
(* with the final save.                                                    *)
C32_FileHoldsFinalPlan == dpc = "verify" => progressFile = prog

(* C33: a run that resumed from a loaded Plan starts no fetcher for a      *)
(* range that is done and leaves such a range as it is, and every request  *)
(* it issues is for an undone range and starts at start + downloaded.      *)
C33_ResumeFetchesOnlyUndone ==
  [][(resumed /\ resumed' /\ dpc \in {"start", "wait"}) =>
       \A i \in 1..Len(prog.parts) :
         /\ prog.parts[i].done =>
              /\ prog'.parts[i] = prog.parts[i]
              /\ dpc' = "wait" => fpc'[i] = "exit"
         /\ (dpc = "wait" /\ fpc[i] = "top" /\ fpc'[i] = "read") =>
              /\ ~prog.parts[i].done
              /\ wpos'[i] = prog.parts[i].start + prog.parts[i].downloaded]_vars

(* A resumed run with one range done before the restart and the fetcher of *)
(* another reading from the middle of its range.                           *)
C33_Witness ==
  /\ resumed /\ dpc = "wait" /\ Len(fpc) = 2
  /\ \E i, k \in 1..2 :
       /\ i # k
       /\ prog.parts[i].done /\ fpc[i] = "exit" /\ wpos[i] = 0
       /\ fpc[k] = "read" /\ wpos[k] > prog.parts[k].start

(* C34: a fetcher leaves its loop only with its range marked done (the     *)
(* cancellation of Download's context comes after all fetchers returned):  *)
(* no broken stream makes it return with the range undone.                 *)
C34_FetcherExitsOnlyDone ==
  \A i \in 1..Len(fpc) : fpc[i] = "exit" => prog.parts[i].done

(* A fetcher reading the answer to a request it made after an earlier      *)
(* stream broke: it asked from beyond the start of its range in a run that *)
(* began with nothing downloaded.                                          *)
C34_Witness ==
  /\ dpc = "wait" /\ ~resumed /\ origin = "any"
  /\ \E i \in 1..Len(fpc) :
       /\ fpc[i] = "read"
       /\ wpos[i] > prog.parts[i].start
       /\ body[i] > 0
       /\ wpos[i] = prog.parts[i].start + prog.parts[i].downloaded
       /\ ~prog.parts[i].done

C38_OneEngineRun ==
  ~(/\ run2.st = "wait" /\ dpc = "wait"
    /\ \E i \in run2.live : fpc[i] \in {"top", "read"})

====
